---- MODULE Spec2Model ----
(***************************************************************************)
(* Model of the Firestore data hook useData (src/src/index.jsx, 58-112):   *)
(* six onSnapshot subscriptions whose callbacks queue React state updaters *)
(* that are applied when the component renders.                            *)
(***************************************************************************)
EXTENDS Integers, Sequences, FiniteSets, TLC

\* ---------------------------------------------------------------- bounds
\* effects (handles) created over the life of the hook
MaxStarts == 2
\* cap on the closure counter loadedCollections (unbounded in the code)
MaxLoaded == 6
\* callbacks that may run in one scheduling tick, before React renders (SpecTick)
MaxBatch == 2

\* ------------------------------------------------------- program constants
\* the collections array of useData
Collections == {"tickets", "requests", "notes", "projects", "profiles", "quotas"}

\* collections.length
NumCollections == Cardinality(Collections)

\* userId values: the falsy ones (user?.uid of a null user, an empty uid) and the
\* uids; the hook only tests a uid and compares it with the previous one, so every
\* sign-in is given a uid of its own, numbered by the effect it creates
NoUser == <<"undefined">>
Falsy == {NoUser, <<"">>}
Uid(k) == <<"uid", k>>

\* error: null of the initial state
NoError == <<>>

\* Firestore documents (doc.id, doc.data()) a snapshot may hold; as the documents
\* useActions writes, their data has no field named id
Doc1 == [id |-> "d1", data |-> [title |-> "a"]]
Doc2 == [id |-> "d2", data |-> [title |-> "b"]]

\* snapshot.docs values delivered by the store: the collections of
\* VariedCollections change over time, the others always hold one document
VariedCollections == {"tickets"}
SnapshotDocs(colName) ==
    IF colName \in VariedCollections THEN {<<Doc1, Doc2>>, <<Doc2>>} ELSE {<<Doc1>>}

\* collections whose subscription may fail
FailingCollections == {"tickets", "notes"}

\* marks an updater whose read of loadedCollections happens at render time
Lazy == -1

VARIABLES
    userId,             \* the userId argument of the last render
    state,              \* the useState value (slices, loading, error)
    queue,              \* updaters passed to setState and not yet applied by a render
    handle,             \* number of effect bodies run so far (id of the last)
    mounted,            \* the closure variable mounted of the last effect
    loadedCollections,  \* the closure variable loadedCollections of the last effect
    closureLoading,     \* state.loading as captured by the last effect's closure
    unsubscribers,      \* open subscriptions, as <<handle, collection>> pairs
    seen,               \* history: collections that delivered to the last effect
    last                \* history: the kind of the last step taken

vars == <<userId, state, queue, handle, mounted, loadedCollections,
          closureLoading, unsubscribers, seen, last>>

\* useState initial value
InitialState ==
    [slices |-> [c \in Collections |-> <<>>], loading |-> TRUE, error |-> NoError]

\* doc => ({ id: doc.id, ...doc.data() }): the fields of doc.data() are spread
\* after id, so a stored field named id would replace doc.id
DecodeDoc(doc) == doc.data @@ [id |-> doc.id]

\* snapshot.docs.map(...)
DecodeSnapshot(docs) == [i \in 1..Len(docs) |-> DecodeDoc(docs[i])]

\* `Erreur de lecture ${colName}`
ErrorMessage(colName) == <<"Erreur de lecture", colName>>

\* mutant: loading is cleared by the last collection of the list instead of the count
SnapshotUpdater_LastNamed(prevState, colName, data, lc) ==
    [prevState EXCEPT !.slices[colName] = data,
                      !.loading = (colName # "quotas")]

\* mutant: the new records are appended to the slice instead of replacing it
SnapshotUpdater_Merge(prevState, colName, data, lc) ==
    [prevState EXCEPT !.slices[colName] = prevState.slices[colName] \o data,
                      !.loading = (lc < NumCollections - 1)]

\* mutant: the state is rebuilt without the previous error
SnapshotUpdater_DropsError(prevState, colName, data, lc) ==
    [prevState EXCEPT !.slices[colName] = data,
                      !.loading = (lc < NumCollections - 1),
                      !.error = NoError]

\* Variant that builds the new state without spreading prevState
SnapshotUpdater_ResetsOthers(prevState, colName, data, lc) ==
    [InitialState EXCEPT !.slices[colName] = data,
                         !.loading = lc < NumCollections - 1]

\* prevState => ({ ...prevState, [colName]: data, loading: loadedCollections < collections.length - 1 })
SnapshotUpdater(prevState, colName, data, lc) ==
    [prevState EXCEPT !.slices[colName] = data,
                      !.loading = (lc < NumCollections - 1)]

\* prevState => ({ ...prevState, loading: false })
LoadedUpdater(prevState) == [prevState EXCEPT !.loading = FALSE]

\* mutant: a failure also ends loading
ErrorUpdater_ClearsLoading(prevState, colName) ==
    [prevState EXCEPT !.error = ErrorMessage(colName), !.loading = FALSE]

\* mutant: the first message recorded is kept
ErrorUpdater_KeepsFirst(prevState, colName) ==
    IF prevState.error = NoError
    THEN [prevState EXCEPT !.error = ErrorMessage(colName)]
    ELSE prevState

\* prevState => ({ ...prevState, error: `Erreur de lecture ${colName}` })
ErrorUpdater(prevState, colName) == [prevState EXCEPT !.error = ErrorMessage(colName)]

\* one queued updater applied by React; a lazy updater reads the closure
\* counter when it runs, an eagerly computed one read it when it was queued
ApplyUpdate(prevState, u, lcNow) ==
    CASE u.kind = "snapshot" ->
            SnapshotUpdater(prevState, u.colName, u.data,
                            IF u.lc = Lazy THEN lcNow ELSE u.lc)
      [] u.kind = "loaded" -> LoadedUpdater(prevState)
      [] u.kind = "error" -> ErrorUpdater(prevState, u.colName)

\* React processes the update queue in order when it renders
RECURSIVE Flush(_, _, _)
Flush(prevState, q, lcNow) ==
    IF q = <<>> THEN prevState
    ELSE Flush(ApplyUpdate(prevState, Head(q), lcNow), Tail(q), lcNow)

Init ==
    /\ userId = NoUser
    /\ state = InitialState
    /\ queue = <<>>
    /\ handle = 0
    /\ mounted = FALSE
    /\ loadedCollections = 0
    /\ closureLoading = TRUE
    /\ unsubscribers = {}
    /\ seen = {}
    /\ last = "init"

\* mutant: the callbacks do not test mounted
Mounted_NotTested(h) == h = handle

\* the closure variable mounted of effect h: every effect before the last one
\* was cleaned up when its successor was created
Mounted(h) == h = handle /\ mounted

\* loadedCollections after the success callback, lines 89-90: the callback tests
\* state.loading of the render that created the effect
CountAfter(lc, closureState) == IF closureState THEN lc + 1 ELSE lc

\* the updaters the success callback passes to setState, lines 83-93; an eagerly
\* computed updater has read the counter before the increment of line 90
QueuedBySnapshot(colName, data, eager, lc, closureState) ==
    LET u == [kind |-> "snapshot", colName |-> colName, data |-> data,
              lc |-> IF eager THEN lc ELSE Lazy]
    IN IF closureState /\ CountAfter(lc, closureState) = NumCollections
       THEN <<u, [kind |-> "loaded"]>>
       ELSE <<u>>

\* the updater the error callback passes to setState, line 98
QueuedByError(colName) == <<[kind |-> "error", colName |-> colName]>>

\* what React does with the updaters q a callback queued: with sync it renders
\* before any other callback runs, otherwise they stay pending
Schedule(q, sync, lcNow) ==
    IF sync
    THEN /\ state' = Flush(state, queue \o q, lcNow)
         /\ queue' = <<>>
    ELSE /\ queue' = queue \o q
         /\ state' = state

\* history: a delivery to an effect older than the last one is a late one
Arrival(h, kind) == IF h = handle THEN kind ELSE "late"

\* the onSnapshot success callback of effect h for colName, lines 79-94; a
\* delivery may still be in flight when the effect is cleaned up
OnSnapshot(h, colName, docs, eager, sync) ==
    /\ h \in 1..handle
    /\ last' = Arrival(h, "snapshot")
    /\ IF Mounted(h)
       THEN /\ eager => queue = <<>>
            /\ CountAfter(loadedCollections, closureLoading) <= MaxLoaded
            /\ seen' = seen \cup {colName}
            /\ loadedCollections' = CountAfter(loadedCollections, closureLoading)
            /\ Schedule(QueuedBySnapshot(colName, DecodeSnapshot(docs), eager,
                                         loadedCollections, closureLoading),
                        sync, loadedCollections')
       ELSE /\ ~eager
            /\ UNCHANGED <<state, queue, loadedCollections, seen>>
    /\ UNCHANGED <<userId, handle, mounted, closureLoading, unsubscribers>>

\* history: a failure processed while the message of another collection is
\* recorded or pending is told apart from a first one
Failure(h, colName) ==
    IF Mounted(h) /\ Flush(state, queue, loadedCollections).error
                        \notin {NoError, ErrorMessage(colName)}
    THEN "errorAgain"
    ELSE "error"

\* the onSnapshot error callback of effect h for colName, lines 95-100
OnError(h, colName, sync) ==
    /\ h \in 1..handle
    /\ last' = Arrival(h, Failure(h, colName))
    /\ IF Mounted(h)
       THEN Schedule(QueuedByError(colName), sync, loadedCollections)
       ELSE UNCHANGED <<state, queue>>
    /\ UNCHANGED <<userId, handle, mounted, loadedCollections, closureLoading,
                   unsubscribers, seen>>

\* mutant: each call of the cleanup closes one subscription only
CleanedUp_One(subs, h) ==
    IF \E s \in subs : s[1] = h
    THEN subs \ {CHOOSE s \in subs : s[1] = h}
    ELSE subs

\* the open subscriptions after the cleanup function of effect h, lines 105-108
CleanedUp(subs, h) == {s \in subs : s[1] # h}

\* the cleanup function returned by the last effect, called by the owner (unmount);
\* a second call runs the same closure again
Cleanup ==
    /\ handle > 0
    /\ userId \notin Falsy
    /\ mounted' = FALSE
    /\ unsubscribers' = CleanedUp(unsubscribers, handle)
    /\ last' = IF last \in {"cleanup", "cleanupAgain"} THEN "cleanupAgain" ELSE "cleanup"
    /\ UNCHANGED <<userId, state, queue, handle, loadedCollections,
                   closureLoading, seen>>

\* mutant: the effect body lacks the early return on a falsy userId
Subscribed_NoGuard(h, uid) == {<<h, c>> : c \in Collections}

\* the subscriptions the effect body opens, lines 75-103
Subscribed(h, uid) == IF uid \in Falsy THEN {} ELSE {<<h, c>> : c \in Collections}

\* useData is rendered with another userId: React applies the pending updaters,
\* runs the previous effect's cleanup and then the effect body, lines 68-109
SetUserId(u) ==
    /\ u # userId
    /\ userId' = u
    /\ state' = Flush(state, queue, loadedCollections)
    /\ queue' = <<>>
    /\ IF u \in Falsy
       THEN /\ mounted' = FALSE
            /\ unsubscribers' = CleanedUp(unsubscribers, handle) \cup Subscribed(handle, u)
            /\ last' = "noUser"
            /\ UNCHANGED <<handle, loadedCollections, closureLoading, seen>>
       ELSE /\ handle < MaxStarts
            /\ handle' = handle + 1
            /\ mounted' = TRUE
            /\ loadedCollections' = 0
            /\ closureLoading' = state'.loading
            /\ unsubscribers' =
                   CleanedUp(unsubscribers, handle) \cup Subscribed(handle + 1, u)
            /\ seen' = {}
            /\ last' = "effect"

\* Spec: every callback runs in a scheduling tick of its own, React renders its
\* updaters before the next one runs
Next ==
    \/ \E u \in Falsy \cup {Uid(handle + 1)} : SetUserId(u)
    \/ Cleanup
    \/ \E h \in 1..MaxStarts, c \in Collections, e \in BOOLEAN :
          \E d \in SnapshotDocs(c) : OnSnapshot(h, c, d, e, TRUE)
    \/ \E h \in 1..MaxStarts, c \in FailingCollections : OnError(h, c, TRUE)

Spec == Init /\ [][Next]_vars

\* callbacks whose updaters are pending: each queued one snapshot or error updater
Callbacks(q) == Cardinality({i \in DOMAIN q : q[i].kind # "loaded"})

\* React renders the component: the pending updaters are applied in order
Render ==
    /\ queue # <<>>
    /\ state' = Flush(state, queue, loadedCollections)
    /\ queue' = <<>>
    /\ last' = "render"
    /\ UNCHANGED <<userId, handle, mounted, loadedCollections, closureLoading,
                   unsubscribers, seen>>

\* SpecTick: the first effect, with up to MaxBatch callbacks running in the same
\* scheduling tick before React renders their updaters
NextTick ==
    \/ handle = 0 /\ SetUserId(Uid(1))
    \/ Cleanup
    \/ Render
    \/ \E c \in Collections, e \in BOOLEAN : \E d \in SnapshotDocs(c) :
          Callbacks(queue) < MaxBatch /\ OnSnapshot(handle, c, d, e, FALSE)
    \/ \E c \in FailingCollections :
          Callbacks(queue) < MaxBatch /\ OnError(handle, c, FALSE)

SpecTick == Init /\ [][NextTick]_vars

\* mutant: the flag is kept outside the effect body and only the cleanup writes it
EffectMounted_Shared(prev) == prev

\* let mounted = true, line 72: each run of the effect body declares its own
\* flag, whatever the cleanup of the previous run left in the previous one
EffectMounted(prev) == TRUE

\* React.StrictMode (main.jsx lines 5-9) runs the cleanup and then the same
\* effect body once more in the commit that created the effect, before any
\* callback can run: the second run closes over the state of the same render
StrictRemount ==
    /\ last = "effect"
    /\ handle < MaxStarts
    /\ handle' = handle + 1
    /\ mounted' = EffectMounted(FALSE)
    /\ loadedCollections' = 0
    /\ unsubscribers' =
           CleanedUp(unsubscribers, handle) \cup Subscribed(handle + 1, userId)
    /\ seen' = {}
    /\ last' = "remount"
    /\ UNCHANGED <<userId, state, queue, closureLoading>>

\* SpecStrict: Spec for an owner rendered under React.StrictMode
NextStrict ==
    \/ Next
    \/ StrictRemount

SpecStrict == Init /\ [][NextStrict]_vars

\* ------------------------------------------------------------------ claims

\* the record list a snapshot with documents docs stands for
SliceIs(slice, docs) ==
    /\ Len(slice) = Len(docs)
    /\ \A i \in 1..Len(docs) :
          slice[i].id = docs[i].id /\ slice[i].title = docs[i].data.title

\* C1: while the first effect is live, loading is false only if each of the six
\* collections has delivered at least one snapshot to it
C1_LoadingFalseOnlyWhenAllSeen ==
    (handle = 1 /\ mounted /\ ~state.loading) => seen = Collections

\* C2: when every collection that delivered to the first effect delivered exactly
\* once, loading is true while fewer than six have delivered and false after the sixth
C2_OneSnapshotEach ==
    (handle = 1 /\ loadedCollections = Cardinality(seen))
        => (state.loading <=> Cardinality(seen) < NumCollections)

C4_SnapshotReplacesSlice ==
    [][(mounted /\ last' = "snapshot") =>
          \A c \in Collections, e \in BOOLEAN : \A d \in SnapshotDocs(c) :
             \/ SliceIs(state'.slices[c], d)
             \/ ~OnSnapshot(handle, c, d, e, TRUE)]_vars

\* C4 witness: tickets held two records and a later snapshot left one of them
C4_Witness ==
    /\ mounted /\ last = "snapshot" /\ seen = {"tickets"} /\ loadedCollections = 3
    /\ Len(state.slices["tickets"]) = 1
    /\ state.slices["tickets"][1].id = "d2"

\* C5: a failure processed by a live effect for collection c sets error to the
\* message naming c and leaves loading and the six slices as they were
C5_ErrorOnlySetsError ==
    [][(mounted /\ last' \in {"error", "errorAgain"}) =>
          \A c \in FailingCollections :
             \/ /\ state'.error = ErrorMessage(c)
                /\ state'.error[2] = c
                /\ state'.loading = state.loading
                /\ state'.slices = state.slices
             \/ ~OnError(handle, c, TRUE)]_vars

\* C5 witness: tickets failed after two collections delivered, loading still true
C5_Witness ==
    /\ mounted /\ last = "error" /\ state.error = ErrorMessage("tickets")
    /\ state.loading /\ seen = {"profiles", "quotas"}

\* C6: once error is set it is set in every later state, whatever step follows
C6_ErrorSticky ==
    [][state.error # NoError => state'.error # NoError]_vars

\* C6 witness: the error of the first effect is still there after the second
\* effect, created for another identity, processed a snapshot
C6_Witness ==
    /\ handle = 2 /\ mounted /\ last = "snapshot" /\ userId = Uid(2)
    /\ state.error = ErrorMessage("notes") /\ seen = {"tickets"}

\* C7: after a collection failed the subscriptions stay open, a later snapshot of
\* another collection still replaces its slice, and loading is true until all six
\* delivered (first effect, no collection delivering twice)
C7_OthersContinueAfterError ==
    [][(/\ handle = 1 /\ mounted /\ state.error # NoError /\ last' = "snapshot"
        /\ loadedCollections' = Cardinality(seen')) =>
          \A c \in {x \in Collections : ErrorMessage(x) # state.error}, e \in BOOLEAN :
            \A d \in SnapshotDocs(c) :
             \/ /\ SliceIs(state'.slices[c], d)
                /\ unsubscribers' = unsubscribers
                /\ (seen' # Collections => state'.loading)
             \/ ~OnSnapshot(handle, c, d, e, TRUE)]_vars

\* C8: a delivery that arrives for an effect that was cleaned up changes neither
\* the state nor the pending updaters
C8_LateDeliveryDiscarded ==
    [][((last' = "late" /\ last # "late")
           \/ (last' \in {"snapshot", "error"} /\ last' # last /\ ~mounted))
          => (state' = state /\ queue' = queue)]_vars

\* C8 witness: after the first effect was fully loaded and cleaned up a snapshot
\* arrived for it
C8_Witness ==
    /\ handle = 1 /\ ~mounted /\ last = "snapshot"
    /\ seen = Collections /\ ~state.loading

\* C9: a second call of the cleanup leaves the state, the pending updaters, mounted
\* and the open subscriptions as the first call left them
C9_CleanupIdempotent ==
    [][(last' = "cleanupAgain" /\ last # "cleanupAgain")
          => /\ state' = state /\ queue' = queue
             /\ mounted' = mounted /\ unsubscribers' = unsubscribers]_vars

\* C9 witness: the cleanup ran twice on an effect that had received data
C9_Witness ==
    /\ last = "cleanupAgain" /\ ~mounted /\ unsubscribers = {} /\ seen # {}

\* C10: a step that ends with a falsy userId opens no subscription, creates no
\* effect closure and leaves the state as it was
C10_FalsyUserIdNoOp ==
    [][userId' \in Falsy
          => (state' = state /\ unsubscribers' = {} /\ handle' = handle /\ ~mounted')]_vars

\* C10 witness: the hook was given an empty uid before any effect ran
C10_Witness ==
    /\ userId = <<"">> /\ last = "noUser" /\ handle = 0 /\ state = InitialState

\* C11: the open subscriptions are none or the six of the last effect, and they
\* are the six exactly while that effect is mounted: the cleanup closes all of
\* them, and an identity change leaves none of the previous effect open
C11_SubscriptionsAsAWhole ==
    /\ Cardinality(unsubscribers) \in {0, NumCollections}
    /\ \A s \in unsubscribers : s[1] = handle
    /\ mounted => unsubscribers = {<<handle, c>> : c \in Collections}
    /\ ~mounted => unsubscribers = {}

\* C11 witness: a second effect was created after the first one received data,
\* and only its six subscriptions are open
C11_Witness ==
    /\ handle = 2 /\ mounted /\ last = "effect" /\ userId = Uid(2)
    /\ state.slices["tickets"] # <<>>
    /\ unsubscribers = {<<2, c>> : c \in Collections}

\* C12: when an effect has just been created, the state is the empty one: six
\* empty slices, no error, loading true
C12_StateEmptyAtStart ==
    last = "effect" => state = InitialState

\* C13: a second effect created when loading was false has loading false once
\* each of the six collections has delivered to it
C13_RestartBecomesReady ==
    (handle = 2 /\ mounted /\ ~closureLoading /\ seen = Collections)
        => ~state.loading

\* C14: when callbacks of one tick are rendered together, a first effect to
\* which no collection delivered twice has loading true exactly while fewer
\* than six collections have delivered
C14_ReadinessInOneTick ==
    (handle = 1 /\ mounted /\ queue = <<>>
        /\ loadedCollections = Cardinality(seen))
        => (state.loading <=> seen # Collections)

C16_RemountLikeSingleStart ==
    [][/\ last' = "remount" =>
            /\ state' = state /\ queue' = queue
            /\ loadedCollections' = loadedCollections
            /\ closureLoading' = closureLoading
            /\ mounted' = mounted /\ mounted
            /\ seen' = seen
            /\ unsubscribers' = {<<handle', c>> : c \in Collections}
       /\ (last' = "late" /\ handle > 1 /\ userId = Uid(handle - 1)) =>
            /\ state' = state /\ queue' = queue
            /\ loadedCollections' = loadedCollections
            /\ mounted' = mounted]_vars

\* C16 witness: after the second run of the first effect all six collections
\* delivered to it, loading is false, and a delivery to the first run arrived
C16_Witness ==
    /\ handle = 2 /\ userId = Uid(1) /\ mounted /\ last = "late"
    /\ seen = Collections /\ ~state.loading
    /\ loadedCollections = NumCollections

\* C17: a failure processed by the live effect while the message of another
\* collection is recorded replaces it by the message of the collection that
\* failed last, and a snapshot processed by the live effect leaves error as it was
C17_LastFailureWins ==
    [][/\ (mounted /\ last' = "errorAgain") =>
            \A c \in FailingCollections :
               \/ /\ state.error \notin {NoError, ErrorMessage(c)}
                  /\ state'.error = ErrorMessage(c)
               \/ ~OnError(handle, c, TRUE)
       /\ (mounted /\ last' = "snapshot") => state'.error = state.error]_vars

\* C17 witness: notes failed after tickets had failed, error names notes
C17_Witness ==
    /\ mounted /\ last = "errorAgain" /\ state.error = ErrorMessage("notes")
    /\ state.loading /\ seen = {"quotas"}

====
